---- MODULE Spec2Model ----
(***************************************************************************)
(* A model of the thermal-evolution core of Spider: the boundary-condition *)
(* scaling of spider/parser.py, State.update and SpiderSolver of           *)
(* spider/solver.py.  Numbers are exact rationals <<numerator,             *)
(* denominator>>; numpy arrays are two-dimensional (node, column) with     *)
(* numpy's broadcasting of a dimension of size one and of scalars.         *)
(* The collaborators that live in spider/core.py and spider/phase.py       *)
(* (mesh, phase state, boundary conditions, radionuclides) are modelled    *)
(* from their description in the specification.                            *)
(***************************************************************************)
EXTENDS Integers, Sequences, FiniteSets, TLC

\* stage:    where the SpiderSolver object is in its life
\* cfg:      the configuration, as read and then as scaled
\* applies:  how BoundaryConditions.apply writes the heat flux
\* state:    the State object of the solver
\* last:     the last call made on the solver and what it returned or raised
\* solution: SpiderSolver._solution
VARIABLES stage, cfg, applies, state, last, solution

vars == <<stage, cfg, applies, state, last, solution>>

(***************************************************************************)
(* Bounds of the model.                                                    *)
(***************************************************************************)
\* number of staggered nodes of the mesh (there is one more basic node)
NumStaggered == 2
\* largest number of temperature columns in one dTdt evaluation
MaxCols == 2
\* times are 0..MaxTime, in units of the radionuclides' half-life
MaxTime == 1
\* largest number of steps the integrator takes in one solve
MaxSteps == 1

(***************************************************************************)
(* Exact rational arithmetic.                                              *)
(***************************************************************************)
Abs(x) == IF x < 0 THEN -x ELSE x

Max(a, b) == IF a >= b THEN a ELSE b

RECURSIVE GCD(_, _)
GCD(a, b) == IF b = 0 THEN a ELSE GCD(b, a % b)

\* the rational n/d in lowest terms with a positive denominator
Q(n, d) ==
    LET g == GCD(Abs(n), Abs(d))
        s == IF d < 0 THEN -1 ELSE 1
    IN  <<(s * n) \div g, (s * d) \div g>>

R(n) == <<n, 1>>

Zero == R(0)

Add(p, q) == Q(p[1] * q[2] + q[1] * p[2], p[2] * q[2])

Neg(p) == <<-p[1], p[2]>>

Sub(p, q) == Add(p, Neg(q))

Mul(p, q) == Q(p[1] * q[1], p[2] * q[2])

Div(p, q) == Q(p[1] * q[2], p[2] * q[1])

Lt(p, q) == p[1] * q[2] < q[1] * p[2]

Le(p, q) == p[1] * q[2] <= q[1] * p[2]

Gt(p, q) == Lt(q, p)

\* n to the power k, k >= 0
RECURSIVE Pow(_, _)
Pow(p, k) == IF k = 0 THEN R(1) ELSE Mul(p, Pow(p, k - 1))

\* 2 to the power -k, k >= 0
RECURSIVE HalfPow(_)
HalfPow(k) == IF k = 0 THEN R(1) ELSE Mul(<<1, 2>>, HalfPow(k - 1))

\* the exact square root of a perfect square
ISqrt(n) == CHOOSE r \in 0..n : r * r = n

\* np.sqrt on a rational that is the square of a rational
Sqrt(p) == <<ISqrt(p[1]), ISqrt(p[2])>>

(***************************************************************************)
(* numpy arrays.  r and c are the numbers of rows and columns; a Python    *)
(* scalar has r = c = 0 and its value at a[1][1].                          *)
(***************************************************************************)
Scalar(q) == [r |-> 0, c |-> 0, a |-> <<<<q>>>>]

\* an attribute that was never assigned
Unset == [r |-> -1, c |-> -1, a |-> <<>>]

IsSet(A) == A.r >= 0

IsScalar(A) == A.r = 0

Array(rows, cols, F(_, _)) ==
    [r |-> rows, c |-> cols,
     a |-> [i \in 1..rows |-> [k \in 1..cols |-> F(i, k)]]]

\* the entry that broadcasting takes for position (i, k)
At(A, i, k) ==
    A.a[IF A.r <= 1 THEN 1 ELSE i][IF A.c <= 1 THEN 1 ELSE k]

\* an elementwise binary operation with broadcasting
Zip(Op(_, _), A, B) ==
    LET rows == Max(A.r, B.r)
        cols == Max(A.c, B.c)
    IN  [r |-> rows, c |-> cols,
         a |-> [i \in 1..Max(rows, 1) |->
                  [k \in 1..Max(cols, 1) |-> Op(At(A, i, k), At(B, i, k))]]]

Map(Op(_), A) ==
    [r |-> A.r, c |-> A.c,
     a |-> [i \in 1..Max(A.r, 1) |-> [k \in 1..Max(A.c, 1) |-> Op(A.a[i][k])]]]

AAdd(A, B) == Zip(Add, A, B)
ASub(A, B) == Zip(Sub, A, B)
AMul(A, B) == Zip(Mul, A, B)
ADiv(A, B) == Zip(Div, A, B)
ANeg(A) == Map(Neg, A)

\* A[M] = v for a boolean mask M of the shape of A
MaskAssign(A, M, v) ==
    [A EXCEPT !.a = [i \in 1..A.r |->
                       [k \in 1..A.c |-> IF M.a[i][k] THEN v ELSE A.a[i][k]]]]

\* A[M] = F(A[M])
MaskApply(F(_), A, M) ==
    [A EXCEPT !.a = [i \in 1..A.r |->
                       [k \in 1..A.c |-> IF M.a[i][k] THEN F(A.a[i][k]) ELSE A.a[i][k]]]]

ANot(M) == Map(LAMBDA b : ~b, M)

\* np.where(M, A, B)
Where(M, A, B) ==
    [r |-> M.r, c |-> M.c,
     a |-> [i \in 1..M.r |->
              [k \in 1..M.c |-> IF M.a[i][k] THEN At(A, i, k) ELSE At(B, i, k)]]]

\* A[i, :] = row for a row vector (or scalar) value
SetRow(A, i, row) ==
    [A EXCEPT !.a[i] = [k \in 1..A.c |-> At(row, 1, k)]]

\* A[i, :] as an array of one row
Row(A, i) == [r |-> 1, c |-> A.c, a |-> <<A.a[i]>>]

\* column k of A as an array of one column
Col(A, k) == [r |-> A.r, c |-> 1, a |-> [i \in 1..A.r |-> <<A.a[i][k]>>]]

\* np.diff(A, axis=0)
Diff(A) ==
    [r |-> A.r - 1, c |-> A.c,
     a |-> [i \in 1..(A.r - 1) |->
              [k \in 1..A.c |-> Sub(A.a[i + 1][k], A.a[i][k])]]]

\* a column vector from a sequence of rationals
ColVec(s) == [r |-> Len(s), c |-> 1, a |-> [i \in 1..Len(s) |-> <<s[i]>>]]

(***************************************************************************)
(* The mesh (spider/core.py): basic nodes at equally spaced radii, a       *)
(* staggered node at the middle of each pair of adjacent basic nodes.      *)
(***************************************************************************)
MeshParameters ==
    [inner_radius |-> 1, delta |-> 1, mixing_length_scale |-> 3]

\* number of basic nodes
NumBasic == NumStaggered + 1

radius(i) == MeshParameters.inner_radius + (i - 1) * MeshParameters.delta

\* mesh.basic.area: radius squared, a column of NumBasic entries
area == ColVec([i \in 1..NumBasic |-> R(radius(i) * radius(i))])

\* mesh.basic.volume: the shell volume between adjacent basic radii, a
\* column of NumStaggered entries, entry i being staggered cell i
volume ==
    ColVec([i \in 1..NumStaggered |->
              Q(radius(i + 1) * radius(i + 1) * radius(i + 1)
                  - radius(i) * radius(i) * radius(i), 3)])

Min(a, b) == IF a <= b THEN a ELSE b

\* mesh.basic.mixing_length: proportional to the distance from the nearest
\* boundary
mixing_length ==
    ColVec([i \in 1..NumBasic |->
              R(MeshParameters.mixing_length_scale
                  * Min(radius(i) - radius(1), radius(NumBasic) - radius(i)))])

mixing_length_squared == AMul(mixing_length, mixing_length)

mixing_length_cubed == AMul(mixing_length_squared, mixing_length)

\* mesh.quantity_at_basic_nodes: the mean of the two adjacent staggered
\* nodes at an interior basic node, the adjacent staggered value at the
\* innermost and the outermost basic node
quantity_at_basic_nodes(temperature) ==
    Array(NumBasic, temperature.c,
          LAMBDA i, k :
              IF i = 1 THEN temperature.a[1][k]
              ELSE IF i = NumBasic THEN temperature.a[NumStaggered][k]
              ELSE Div(Add(temperature.a[i - 1][k], temperature.a[i][k]), R(2)))

\* mesh.d_dr_at_basic_nodes: the difference of the two adjacent staggered
\* nodes over their distance at an interior basic node, the one-sided
\* difference at the innermost and the outermost basic node
d_dr_at_basic_nodes(temperature) ==
    Array(NumBasic, temperature.c,
          LAMBDA i, k :
              LET j == IF i = 1 THEN 2 ELSE IF i = NumBasic THEN NumStaggered ELSE i
              IN  Div(Sub(temperature.a[j][k], temperature.a[j - 1][k]),
                      R(MeshParameters.delta)))

(***************************************************************************)
(* The phase state (spider/phase.py): a single phase of constant           *)
(* properties, tabulated for temperatures table_min..table_max.            *)
(***************************************************************************)
PhaseParameters ==
    [density |-> R(1), heat_capacity |-> <<1, 2>>, thermal_conductivity |-> R(1),
     thermal_expansivity |-> <<1, 2>>, viscosity |-> R(2),
     gravitational_acceleration |-> R(1), table_min |-> R(0), table_max |-> R(31)]

\* a PhaseState before its first update
PhaseInit == [temperature |-> Unset]

InTable(temperature) ==
    \A i \in 1..temperature.r : \A k \in 1..temperature.c :
        /\ Le(PhaseParameters.table_min, temperature.a[i][k])
        /\ Le(temperature.a[i][k], PhaseParameters.table_max)

\* PhaseState.update(temperature, pressure): a DomainError outside the
\* table leaves the snapshot as it was
PhaseUpdate(phase, temperature) ==
    IF InTable(temperature)
    THEN [phase |-> [temperature |-> temperature], err |-> "none"]
    ELSE [phase |-> phase, err |-> "DomainError"]

\* a property of constant value, of the shape of the snapshot
PhaseConst(phase, value) == Map(LAMBDA t : value, phase.temperature)

density(phase) == PhaseConst(phase, PhaseParameters.density)

heat_capacity(phase) == PhaseConst(phase, PhaseParameters.heat_capacity)

thermal_conductivity(phase) == PhaseConst(phase, PhaseParameters.thermal_conductivity)

thermal_expansivity(phase) == PhaseConst(phase, PhaseParameters.thermal_expansivity)

gravitational_acceleration(phase) ==
    PhaseConst(phase, PhaseParameters.gravitational_acceleration)

kinematic_viscosity(phase) ==
    PhaseConst(phase, Div(PhaseParameters.viscosity, PhaseParameters.density))

capacitance(phase) == AMul(density(phase), heat_capacity(phase))

\* the adiabatic temperature gradient -g * alpha * T / heat_capacity
dTdrs(phase) ==
    ANeg(ADiv(AMul(AMul(gravitational_acceleration(phase), thermal_expansivity(phase)),
                   phase.temperature),
              heat_capacity(phase)))

(***************************************************************************)
(* Radionuclides (spider/core.py): power is concentration times heat       *)
(* production; the half-life is the unit of time.                          *)
(***************************************************************************)
get_heating(radionuclide, time) == Mul(radionuclide.power, HalfPow(time))

(***************************************************************************)
(* spider/parser.py: the scalings and the scaling of the boundary          *)
(* conditions while the Configuration is built.                            *)
(***************************************************************************)
\* scalings.__post_init__: the derived scalings
scalings_post_init(s) ==
    LET velocity == Div(s.radius, s.time)
        kinetic_energy_per_volume == Mul(s.density, Mul(velocity, velocity))
        heat_capacity_ == Div(Div(kinetic_energy_per_volume, s.density), s.temperature)
        power_per_volume == Div(kinetic_energy_per_volume, s.time)
    IN  [radius |-> s.radius, temperature |-> s.temperature,
         density |-> s.density, time |-> s.time,
         heat_capacity |-> heat_capacity_,
         heat_flux |-> Mul(power_per_volume, s.radius)]

\* an inner scaling that treats code 1 as a prescribed flux
scale_inner_boundary_condition_prescribed(bc, s) ==
    IF bc.inner_boundary_condition \in {1, 2}
    THEN [bc |-> [bc EXCEPT !.inner_boundary_value = Div(@, s.heat_flux)], err |-> "none"]
    ELSE IF bc.inner_boundary_condition = 3
    THEN [bc |-> [bc EXCEPT !.inner_boundary_value = Div(@, s.temperature)], err |-> "none"]
    ELSE [bc |-> bc, err |-> "ValueError"]

\* boundary_conditions._scale_inner_boundary_condition
scale_inner_boundary_condition(bc, s) ==
    IF bc.inner_boundary_condition = 1
    THEN [bc |-> [bc EXCEPT !.inner_boundary_value = Zero], err |-> "none"]
    ELSE IF bc.inner_boundary_condition = 2
    THEN [bc |-> [bc EXCEPT !.inner_boundary_value = Div(@, s.heat_flux)], err |-> "none"]
    ELSE IF bc.inner_boundary_condition = 3
    THEN [bc |-> [bc EXCEPT !.inner_boundary_value = Div(@, s.temperature)], err |-> "none"]
    ELSE [bc |-> bc, err |-> "ValueError"]

\* an outer scaling that lets an unknown code pass unscaled
scale_outer_boundary_condition_lenient(bc, s) ==
    IF bc.outer_boundary_condition = 4
    THEN [bc |-> [bc EXCEPT !.outer_boundary_value = Div(@, s.heat_flux)], err |-> "none"]
    ELSE IF bc.outer_boundary_condition = 5
    THEN [bc |-> [bc EXCEPT !.outer_boundary_value = Div(@, s.temperature)], err |-> "none"]
    ELSE [bc |-> bc, err |-> "none"]

\* boundary_conditions._scale_outer_boundary_condition
scale_outer_boundary_condition(bc, s) ==
    IF bc.outer_boundary_condition \in {1, 2, 3}
    THEN [bc |-> bc, err |-> "none"]
    ELSE IF bc.outer_boundary_condition = 4
    THEN [bc |-> [bc EXCEPT !.outer_boundary_value = Div(@, s.heat_flux)], err |-> "none"]
    ELSE IF bc.outer_boundary_condition = 5
    THEN [bc |-> [bc EXCEPT !.outer_boundary_value = Div(@, s.temperature)], err |-> "none"]
    ELSE [bc |-> bc, err |-> "ValueError"]

\* boundary_conditions.scale_attributes: the inner condition is scaled
\* first, and an unknown code raises before the outer one is looked at
scale_attributes(bc, s) ==
    LET b0 == [bc EXCEPT !.equilibrium_temperature = Div(@, s.temperature),
                         !.core_radius = Div(@, s.radius),
                         !.core_density = Div(@, s.density),
                         !.core_heat_capacity = Div(@, s.heat_capacity)]
        inner == scale_inner_boundary_condition(b0, s)
    IN  IF inner.err # "none" THEN inner
        ELSE scale_outer_boundary_condition(inner.bc, s)

\* Configuration.__post_init__: scales every section that can be scaled;
\* the boundary conditions are the section that can fail
Configuration_post_init(c) ==
    LET s == scalings_post_init(c.scalings)
        scaled == scale_attributes(c.boundary_conditions, s)
    IN  [cfg |-> [c EXCEPT !.boundary_conditions = scaled.bc, !.scalings = s],
         err |-> scaled.err]

(***************************************************************************)
(* Boundary conditions (spider/core.py).                                   *)
(***************************************************************************)
BoundaryParameters ==
    [stefan_boltzmann_constant |-> <<1, 1000>>, core_cooling_rate |-> R(1)]

\* conform_temperature_boundary_conditions: a prescribed temperature (inner
\* code 3, outer code 5) replaces the temperature at the boundary basic node
\* and the gradient there is taken against it over half a cell
conform_temperature_boundary_conditions(bc, temperature, temperature_basic, dTdr_) ==
    LET half == Q(MeshParameters.delta, 2)
        tb1 == IF bc.inner_boundary_condition = 3
               THEN SetRow(temperature_basic, 1, Scalar(bc.inner_boundary_value))
               ELSE temperature_basic
        dr1 == IF bc.inner_boundary_condition = 3
               THEN SetRow(dTdr_, 1,
                      Map(LAMBDA t : Div(Sub(t, bc.inner_boundary_value), half),
                          Row(temperature, 1)))
               ELSE dTdr_
        tb2 == IF bc.outer_boundary_condition = 5
               THEN SetRow(tb1, NumBasic, Scalar(bc.outer_boundary_value))
               ELSE tb1
        dr2 == IF bc.outer_boundary_condition = 5
               THEN SetRow(dr1, NumBasic,
                      Map(LAMBDA t : Div(Sub(bc.outer_boundary_value, t), half),
                          Row(temperature, NumStaggered)))
               ELSE dr1
    IN  [temperature_basic |-> tb2, dTdr |-> dr2]

(***************************************************************************)
(* spider/solver.py: State.                                                *)
(***************************************************************************)
\* a State after __post_init__: the two phase states exist, the derived
\* arrays were never assigned
StateInit ==
    [phase_basic |-> PhaseInit, phase_staggered |-> PhaseInit,
     temperature_basic |-> Unset, dTdr |-> Unset,
     super_adiabatic_temperature_gradient |-> Unset, is_convective |-> Unset,
     viscous_velocity |-> Unset, inviscid_velocity |-> Unset,
     reynolds_number |-> Unset, eddy_diffusivity |-> Unset,
     heat_flux |-> Unset, heating |-> Unset]

critical_reynolds_number == <<9, 8>>

\* a regime test that leaves the critical Reynolds number itself out
viscous_regime_strict(self) ==
    Map(LAMBDA x : Lt(x, critical_reynolds_number), self.reynolds_number)

viscous_regime(self) ==
    Map(LAMBDA x : Le(x, critical_reynolds_number), self.reynolds_number)

inviscid_regime(self) ==
    Map(LAMBDA x : Gt(x, critical_reynolds_number), self.reynolds_number)

\* a top temperature read from the first column for every column
top_temperature_first_column(self) ==
    Array(1, self.temperature_basic.c,
          LAMBDA i, k : self.temperature_basic.a[NumBasic][1])

top_temperature(self) == Row(self.temperature_basic, NumBasic)

bottom_temperature(self) == Row(self.temperature_basic, 1)

conductive_heat_flux(self) ==
    AMul(ANeg(thermal_conductivity(self.phase_basic)), self.dTdr)

convective_heat_flux(self) ==
    AMul(AMul(AMul(ANeg(density(self.phase_basic)), heat_capacity(self.phase_basic)),
              self.eddy_diffusivity),
         self.super_adiabatic_temperature_gradient)

\* the sum of get_heating over a list of radionuclides, from 0
RECURSIVE SumHeating(_, _)
SumHeating(radionuclides, time) ==
    IF radionuclides = <<>> THEN Zero
    ELSE Add(SumHeating(SubSeq(radionuclides, 1, Len(radionuclides) - 1), time),
             get_heating(radionuclides[Len(radionuclides)], time))

radiogenic_heating(self, radionuclides, time) ==
    AMul(Scalar(SumHeating(radionuclides, time)),
         ADiv(density(self.phase_staggered), capacitance(self.phase_staggered)))

\* State._set_temperature
set_temperature(self, bc, temperature) ==
    LET conformed == conform_temperature_boundary_conditions(
                         bc, temperature, quantity_at_basic_nodes(temperature),
                         d_dr_at_basic_nodes(temperature))
    IN  [self EXCEPT !.temperature_basic = conformed.temperature_basic,
                     !.dTdr = conformed.dTdr]

\* State.update, the super-adiabatic gradient and the convective mask
update_gradient(self) ==
    LET gradient == ASub(self.dTdr, dTdrs(self.phase_basic))
    IN  [self EXCEPT !.super_adiabatic_temperature_gradient = gradient,
                     !.is_convective = Map(LAMBDA x : Lt(x, Zero), gradient)]

velocity_prefactor(self) ==
    AMul(AMul(ANeg(gravitational_acceleration(self.phase_basic)),
              thermal_expansivity(self.phase_basic)),
         self.super_adiabatic_temperature_gradient)

\* a viscous velocity that is not zeroed where the flow does not convect
update_viscous_velocity_unmasked(self) ==
    [self EXCEPT !.viscous_velocity =
        ADiv(AMul(velocity_prefactor(self), mixing_length_cubed),
             AMul(Scalar(R(18)), kinematic_viscosity(self.phase_basic)))]

\* State.update, the viscous velocity
update_viscous_velocity(self) ==
    LET unmasked == ADiv(AMul(velocity_prefactor(self), mixing_length_cubed),
                         AMul(Scalar(R(18)), kinematic_viscosity(self.phase_basic)))
    IN  [self EXCEPT !.viscous_velocity =
                         MaskAssign(unmasked, ANot(self.is_convective), Zero)]

\* an inviscid velocity that is left as computed where the flow does not
\* convect
update_inviscid_velocity_unmasked(self) ==
    [self EXCEPT !.inviscid_velocity =
        MaskApply(Sqrt,
                  ADiv(AMul(velocity_prefactor(self), mixing_length_squared),
                       Scalar(R(16))),
                  self.is_convective)]

\* State.update, the inviscid velocity
update_inviscid_velocity(self) ==
    LET unmasked == ADiv(AMul(velocity_prefactor(self), mixing_length_squared),
                         Scalar(R(16)))
        masked == MaskAssign(unmasked, ANot(self.is_convective), Zero)
    IN  [self EXCEPT !.inviscid_velocity = MaskApply(Sqrt, masked, self.is_convective)]

\* State.update, the Reynolds number
update_reynolds_number(self) ==
    [self EXCEPT !.reynolds_number =
        ADiv(AMul(self.viscous_velocity, mixing_length),
             kinematic_viscosity(self.phase_basic))]

\* an eddy diffusivity that takes the viscous velocity in both regimes
update_eddy_diffusivity_viscous_only(self) ==
    [self EXCEPT !.eddy_diffusivity = AMul(self.viscous_velocity, mixing_length)]

\* State.update, the eddy diffusivity
update_eddy_diffusivity(self) ==
    [self EXCEPT !.eddy_diffusivity =
        AMul(Where(viscous_regime(self), self.viscous_velocity, self.inviscid_velocity),
             mixing_length)]

\* self._heat_flux += self.conductive_heat_flux, if enabled
add_conduction(self, energy, heat_flux) ==
    IF energy.conduction THEN AAdd(heat_flux, conductive_heat_flux(self)) ELSE heat_flux

\* a convective term that is added whether or not it is enabled
add_convection_always(self, energy, heat_flux) ==
    AAdd(heat_flux, convective_heat_flux(self))

\* self._heat_flux += self.convective_heat_flux, if enabled
add_convection(self, energy, heat_flux) ==
    IF energy.convection THEN AAdd(heat_flux, convective_heat_flux(self)) ELSE heat_flux

\* a heat flux that leaves the unimplemented terms out without raising
update_heat_flux_silent(self, energy) ==
    [state |-> [self EXCEPT !.heat_flux =
                    add_convection(self, energy,
                        add_conduction(self, energy, Scalar(Zero)))],
     err |-> "none"]

\* a heat flux that adds to the heat flux of the previous update
update_heat_flux_accumulating(self, energy) ==
    [state |-> [self EXCEPT !.heat_flux =
                    add_convection(self, energy,
                        add_conduction(self, energy,
                            IF IsSet(self.heat_flux) THEN self.heat_flux
                            ELSE Scalar(Zero)))],
     err |-> IF energy.gravitational_separation \/ energy.mixing
             THEN "NotImplementedError" ELSE "none"]

\* State.update, the heat flux: the terms are added one after the other to
\* _heat_flux, which holds the sum so far when an unimplemented term raises
update_heat_flux(self, energy) ==
    [state |-> [self EXCEPT !.heat_flux =
                    add_convection(self, energy,
                        add_conduction(self, energy, Scalar(Zero)))],
     err |-> IF energy.gravitational_separation \/ energy.mixing
             THEN "NotImplementedError" ELSE "none"]

\* a heating that adds the radiogenic heating whether or not it is enabled
update_heating_unconditional(self, c, time) ==
    [self EXCEPT !.heating =
        AAdd(Scalar(Zero), radiogenic_heating(self, c.radionuclides, time))]

\* a heating that adds a tidal heating of 1 when energy.tidal is enabled
update_heating_with_tidal(self, c, time) ==
    [self EXCEPT !.heating =
        AAdd(IF c.energy.radionuclides
             THEN AAdd(Scalar(Zero), radiogenic_heating(self, c.radionuclides, time))
             ELSE Scalar(Zero),
             IF c.energy.tidal THEN Scalar(R(1)) ELSE Scalar(Zero))]

\* State.update, the heating
update_heating(self, c, time) ==
    [self EXCEPT !.heating =
        IF c.energy.radionuclides
        THEN AAdd(Scalar(Zero), radiogenic_heating(self, c.radionuclides, time))
        ELSE Scalar(Zero)]

\* State.update, self.phase_staggered.update(temperature): the State it
\* leaves and the error it raised; the later steps take both as w
update_phase_staggered(self, temperature) ==
    LET updated == PhaseUpdate(self.phase_staggered, temperature)
    IN  [state |-> [self EXCEPT !.phase_staggered = updated.phase], err |-> updated.err]

\* State.update, self.phase_basic.update(self._temperature_basic)
update_phase_basic(w) ==
    IF w.err # "none" THEN w
    ELSE LET updated == PhaseUpdate(w.state.phase_basic, w.state.temperature_basic)
         IN  [state |-> [w.state EXCEPT !.phase_basic = updated.phase],
              err |-> updated.err]

\* State.update, from the super-adiabatic gradient to the heat flux
update_from_gradient(w, c) ==
    IF w.err # "none" THEN w
    ELSE update_heat_flux(
             update_eddy_diffusivity(update_reynolds_number(
                 update_inviscid_velocity(update_viscous_velocity(
                     update_gradient(w.state))))),
             c.energy)

\* State.update, the heating, which ends a call that did not raise
update_from_heat_flux(w, c, time) ==
    IF w.err # "none" THEN w
    ELSE [w EXCEPT !.state = update_heating(@, c, time)]

\* State.update(temperature, time): the state it leaves and the error it
\* raises, "none" when it completes
update(self, c, temperature, time) ==
    update_from_heat_flux(
        update_from_gradient(
            update_phase_basic(
                update_phase_staggered(
                    set_temperature(self, c.boundary_conditions, temperature),
                    temperature)),
            c),
        c, time)

(***************************************************************************)
(* BoundaryConditions.apply (spider/core.py).  It writes the heat flux at  *)
(* the innermost and the outermost basic node; impl says how: "item"       *)
(* assigns into the rows of the array state.heat_flux returns, "setter"    *)
(* builds a new array and installs it through the State.heat_flux setter.  *)
(***************************************************************************)
ApplyImplementations == {"item", "setter"}

\* the grey-body flux emissivity * sigma * (T_top^4 - T_eq^4), one row
grey_body(bc, self) ==
    Map(LAMBDA t : Mul(Mul(bc.emissivity, BoundaryParameters.stefan_boltzmann_constant),
                       Sub(Pow(t, 4), Pow(bc.equilibrium_temperature, 4))),
        top_temperature(self))

\* the flux the inner boundary condition prescribes or derives
inner_boundary_flux(bc, self) ==
    IF bc.inner_boundary_condition = 1
    THEN Scalar(Mul(bc.core_heat_capacity, BoundaryParameters.core_cooling_rate))
    ELSE Scalar(bc.inner_boundary_value)

outer_boundary_flux(bc, self) ==
    IF bc.outer_boundary_condition = 1 THEN grey_body(bc, self)
    ELSE Scalar(bc.outer_boundary_value)

\* State.heat_flux setter
heat_flux_setter(self, value) == [self EXCEPT !.heat_flux = value]

\* one write of a boundary row: [state, err, installed]
write_heat_flux(w, i, row, impl) ==
    IF w.err # "none" THEN w
    ELSE IF impl = "item"
    THEN IF IsScalar(w.state.heat_flux)
         THEN [w EXCEPT !.err = "TypeError"]
         ELSE [w EXCEPT !.state.heat_flux = SetRow(@, i, row)]
    ELSE LET copy == Array(NumBasic, w.state.temperature_basic.c,
                           LAMBDA j, k : At(w.state.heat_flux, j, k))
         IN  [w EXCEPT !.state = heat_flux_setter(@, SetRow(copy, i, row)),
                       !.installed = TRUE]

\* apply, the inner boundary
apply_inner(bc, self, impl) ==
    IF bc.inner_boundary_condition \in {1, 2}
    THEN write_heat_flux([state |-> self, err |-> "none", installed |-> FALSE],
                         1, inner_boundary_flux(bc, self), impl)
    ELSE [state |-> self, err |-> "none", installed |-> FALSE]

\* apply, the outer boundary
apply_outer(w, bc, impl) ==
    IF w.err # "none" THEN w
    ELSE IF bc.outer_boundary_condition \in {2, 3}
    THEN [w EXCEPT !.err = "NotImplementedError"]
    ELSE IF bc.outer_boundary_condition \in {1, 4}
    THEN write_heat_flux(w, NumBasic, outer_boundary_flux(bc, w.state), impl)
    ELSE w

\* apply(state): inner boundary, then outer boundary; installed says that
\* state.heat_flux is a new array object afterwards
apply(bc, self, impl) == apply_outer(apply_inner(bc, self, impl), bc, impl)

(***************************************************************************)
(* spider/solver.py: SpiderSolver.                                         *)
(***************************************************************************)
\* the array the local name heat_flux of dTdt denotes after apply has run:
\* it was bound to state.heat_flux before apply, so it shows what apply
\* wrote into that array and not an array apply installed in its place
dTdt_heat_flux(before, applied) ==
    IF applied.installed THEN before.heat_flux ELSE applied.state.heat_flux

\* what dTdt leaves when the update or apply raised: no value
dTdt_raised(w) ==
    [state |-> w.state, err |-> w.err, heat_flux |-> Unset,
     energy_flux |-> Unset, value |-> Unset]

\* an energy balance that adds the divergence of the energy flux
dTdt_balance_unsigned(self, heat_flux) ==
    LET energy_flux == AMul(heat_flux, area)
    IN  [state |-> self, err |-> "none", heat_flux |-> heat_flux,
         energy_flux |-> energy_flux,
         value |-> AAdd(ADiv(Diff(energy_flux),
                             AMul(capacitance(self.phase_staggered), volume)),
                        self.heating)]

\* an energy balance that divides by the capacitance per unit volume alone
dTdt_balance_per_volume(self, heat_flux) ==
    LET energy_flux == AMul(heat_flux, area)
    IN  [state |-> self, err |-> "none", heat_flux |-> heat_flux,
         energy_flux |-> energy_flux,
         value |-> AAdd(ADiv(ANeg(Diff(energy_flux)),
                             capacitance(self.phase_staggered)),
                        self.heating)]

\* the energy balance of dTdt from the heat flux at the basic nodes
dTdt_balance(self, heat_flux) ==
    LET energy_flux == AMul(heat_flux, area)
    IN  [state |-> self, err |-> "none", heat_flux |-> heat_flux,
         energy_flux |-> energy_flux,
         value |-> AAdd(ADiv(ANeg(Diff(energy_flux)),
                             AMul(capacitance(self.phase_staggered), volume)),
                        self.heating)]

\* dTdt after apply returned or raised
dTdt_after_apply(before, applied) ==
    IF applied.err # "none" THEN dTdt_raised(applied)
    ELSE dTdt_balance(applied.state, dTdt_heat_flux(before, applied))

\* dTdt after State.update returned or raised
dTdt_after_update(u, c, impl) ==
    IF u.err # "none" THEN dTdt_raised(u)
    ELSE dTdt_after_apply(u.state, apply(c.boundary_conditions, u.state, impl))

\* SpiderSolver.dTdt(time, temperature) with the state it leaves
dTdt(self, c, impl, time, temperature) ==
    dTdt_after_update(update(self, c, temperature, time), c, impl)

(***************************************************************************)
(* Temperature profiles: the temperature is hot up to a staggered node and *)
(* cold above it.  Against the cold value 5, the hot values give at the    *)
(* basic node between them a sub-adiabatic gradient (5), a gradient equal  *)
(* to the adiabat (15), viscous convection (16), a Reynolds number of      *)
(* exactly 9/8 (19), inviscid convection (31) and a temperature outside    *)
(* the table of the phase (100).                                           *)
(***************************************************************************)
TempValues == {5, 15, 16, 19, 31, 100}

ColdValue == CHOOSE v \in TempValues : \A w \in TempValues : v <= w

StepPositions == {1, NumStaggered}

StepProfile(v, p) ==
    [i \in 1..NumStaggered |-> IF i <= p THEN R(v) ELSE R(ColdValue)]

\* the profiles, each a sequence of NumStaggered temperatures
Profiles == {StepProfile(v, p) : v \in TempValues, p \in StepPositions}

\* the array of the columns cols, a sequence of profiles
FromColumns(cols) ==
    Array(NumStaggered, Len(cols), LAMBDA i, k : cols[k][i])

\* a temperature array of one column
Columns == {FromColumns(<<p>>) : p \in Profiles}

Times == 0..MaxTime

(***************************************************************************)
(* SpiderSolver.solve.  The integrator is scipy's solve_ivp; what it       *)
(* reports is an outcome: its status (0 reached the end, -1 a step failed) *)
(* and the profiles of the steps it took after the initial condition.      *)
(***************************************************************************)
\* data.initial_condition.temperature
InitialProfile == StepProfile(31, 1)

\* the profiles the integrator steps to
StepProfiles == {StepProfile(19, 1)}

Outcomes ==
    [status : {0, -1},
     steps : UNION {[1..n -> StepProfiles] : n \in 0..MaxSteps}]

NoOutcome == [status |-> 0, steps |-> <<>>]

NoSolution == [status |-> 1, success |-> FALSE, t |-> <<>>, y |-> <<>>]

\* the right-hand side evaluated along the trajectory, from position i: w
\* is the state after the last evaluation and the error it raised
RECURSIVE evaluate_along(_, _, _, _, _)
evaluate_along(w, c, impl, trajectory, i) ==
    IF w.err # "none" \/ i > Len(trajectory)
    THEN [state |-> w.state, err |-> w.err]
    ELSE evaluate_along(dTdt(w.state, c, impl, i - 1, FromColumns(<<trajectory[i]>>)),
                        c, impl, trajectory, i + 1)

\* what solve_ivp returns for an integrator that reports outcome, after
\* the evaluations e of the right-hand side
integration(e, outcome) ==
    [state |-> e.state, err |-> e.err,
     result |-> [status |-> outcome.status, success |-> outcome.status = 0,
                 t |-> [i \in 1..(1 + Len(outcome.steps)) |-> i - 1],
                 y |-> <<InitialProfile>> \o outcome.steps]]

\* solve_ivp(self.dTdt, ...) for an integrator that reports outcome
solve_ivp(self, c, impl, outcome) ==
    integration(evaluate_along([state |-> self, err |-> "none"], c, impl,
                               <<InitialProfile>> \o outcome.steps, 1),
                outcome)

\* self._solution = solve_ivp(...): an exception of the right-hand side
\* leaves _solution as it was
store_solution(run, old_solution) ==
    [state |-> run.state, err |-> run.err, integrations |-> 1,
     solution |-> IF run.err = "none" THEN run.result ELSE old_solution]

\* an assignment that is skipped when the integrator failed
store_successful_solution(run, old_solution) ==
    [state |-> run.state, err |-> run.err, integrations |-> 1,
     solution |-> IF run.err = "none" /\ run.result.success
                  THEN run.result ELSE old_solution]

\* a solve that keeps the earlier solution when the integrator fails
solve_discarding_failure(self, old_solution, c, impl, outcome) ==
    store_successful_solution(solve_ivp(self, c, impl, outcome), old_solution)

\* SpiderSolver.solve: one integration, whose result becomes _solution
solve(self, old_solution, c, impl, outcome) ==
    store_solution(solve_ivp(self, c, impl, outcome), old_solution)

\* the solution property: self._solution, an attribute that does not exist
\* before solve has assigned it
solution_getter(stored) ==
    [value |-> stored,
     err |-> IF stored = NoSolution THEN "AttributeError" ELSE "none"]

\* a temperature read from the solution as it is stored
get_temperature_unscaled(stored, c) ==
    [value |-> IF stored = NoSolution THEN <<>> ELSE stored.y,
     err |-> solution_getter(stored).err]

\* SpiderSolver.get_temperature: self.solution.y * scalings.temperature
get_temperature(stored, c) ==
    [value |-> IF stored = NoSolution THEN <<>>
               ELSE [k \in 1..Len(stored.y) |->
                        [i \in 1..NumStaggered |->
                            Mul(stored.y[k][i], c.scalings.temperature)]],
     err |-> solution_getter(stored).err]

(***************************************************************************)
(* Configurations.                                                         *)
(***************************************************************************)
UnitScalings ==
    [radius |-> R(1), temperature |-> R(1), density |-> R(1), time |-> R(1)]

\* temperatures are halved and heat fluxes are halved by these scalings
CoarseScalings ==
    [radius |-> R(1), temperature |-> R(2), density |-> R(2), time |-> R(1)]

Energy(conduction, convection, gravitational_separation, mixing, radionuclides, tidal) ==
    [conduction |-> conduction, convection |-> convection,
     gravitational_separation |-> gravitational_separation, mixing |-> mixing,
     radionuclides |-> radionuclides, tidal |-> tidal]

AllEnergy ==
    [conduction : BOOLEAN, convection : BOOLEAN, gravitational_separation : BOOLEAN,
     mixing : BOOLEAN, radionuclides : BOOLEAN, tidal : BOOLEAN]

Radionuclides == <<[power |-> R(1)], [power |-> R(2)]>>

\* the boundary-conditions section as written in the configuration file, in
\* the units that scalings s removes: a prescribed flux of inner_flux and
\* outer_flux, a prescribed temperature of 19 inside and 5 outside, an
\* equilibrium temperature of 5
RawBoundaryConditions(inner, outer, inner_flux, outer_flux, s) ==
    LET d == scalings_post_init(s)
    IN  [outer_boundary_condition |-> outer,
         outer_boundary_value |->
             IF outer = 5 THEN Mul(R(5), d.temperature)
             ELSE Mul(R(outer_flux), d.heat_flux),
         inner_boundary_condition |-> inner,
         inner_boundary_value |->
             IF inner = 3 THEN Mul(R(19), d.temperature)
             ELSE Mul(R(inner_flux), d.heat_flux),
         emissivity |-> R(1),
         equilibrium_temperature |-> Mul(R(5), d.temperature),
         core_radius |-> Mul(R(1), d.radius),
         core_density |-> Mul(R(1), d.density),
         core_heat_capacity |-> Mul(R(1), d.heat_capacity)]

RawConfiguration(inner, outer, inner_flux, outer_flux, energy, s) ==
    [boundary_conditions |-> RawBoundaryConditions(inner, outer, inner_flux, outer_flux, s),
     energy |-> energy, radionuclides |-> Radionuclides, scalings |-> s]

\* a configuration as it is after a construction that succeeded
Scaled(raw) == Configuration_post_init(raw).cfg

InnerCodes == 0..4

OuterCodes == 0..6

\* the configuration files of the life-cycle specification: every inner
\* code with a prescribed outer flux, every outer code with a prescribed
\* inner flux; one more with the mixing flux enabled
LifeConfigurations ==
    {RawConfiguration(bc[1], bc[2], 2, 0,
                      Energy(TRUE, TRUE, FALSE, FALSE, TRUE, FALSE), CoarseScalings) :
        bc \in ({<<i, 4>> : i \in InnerCodes} \cup {<<2, o>> : o \in OuterCodes}
                   \cup {<<0, 6>>})}
    \cup {RawConfiguration(2, 4, 2, 0,
                           Energy(TRUE, FALSE, FALSE, TRUE, FALSE, FALSE), UnitScalings)}

\* heat fluxes are divided by 3 and temperatures by 2 by these scalings
SteepScalings ==
    [radius |-> R(1), temperature |-> R(2), density |-> R(3), time |-> R(1)]

\* the configuration files of the scaling specification: every inner and
\* outer code, with boundary values written down as they are in the file
ScaleConfigurations ==
    {[boundary_conditions |->
          [outer_boundary_condition |-> outer, outer_boundary_value |-> R(outer_value),
           inner_boundary_condition |-> inner, inner_boundary_value |-> R(inner_value),
           emissivity |-> R(1), equilibrium_temperature |-> R(10),
           core_radius |-> R(1), core_density |-> R(6), core_heat_capacity |-> R(1)],
      energy |-> Energy(TRUE, TRUE, FALSE, FALSE, TRUE, FALSE),
      radionuclides |-> Radionuclides, scalings |-> s] :
        inner \in InnerCodes, outer \in OuterCodes,
        inner_value \in {6, 12}, outer_value \in {6, 12},
        s \in {UnitScalings, CoarseScalings, SteepScalings}}

\* the lists of registered radionuclides: none, one, both
RadionuclideLists ==
    {SubSeq(Radionuclides, 1, n) : n \in 0..Len(Radionuclides)}

\* the configurations of the single-update specification: every setting of
\* the energy flags and every list of radionuclides, with prescribed fluxes
\* and with prescribed temperatures
UpdateConfigurations ==
    {[Scaled(RawConfiguration(bc[1], bc[2], 2, 0, e, UnitScalings))
         EXCEPT !.radionuclides = registered] :
        bc \in {<<2, 4>>, <<3, 5>>}, e \in AllEnergy, registered \in RadionuclideLists}

\* the configurations of the update-sequence specification
HistoryConfigurations ==
    {Scaled(RawConfiguration(bc[1], bc[2], 2, 0, e, UnitScalings)) :
        bc \in {<<2, 4>>, <<3, 5>>},
        e \in {Energy(TRUE, TRUE, FALSE, FALSE, TRUE, FALSE),
               Energy(FALSE, TRUE, FALSE, FALSE, FALSE, FALSE),
               Energy(TRUE, TRUE, TRUE, FALSE, TRUE, FALSE)}}

\* the configurations of the single-dTdt specification: <<inner code, outer
\* code, inner flux, energy flags>>
BatchConfigurations ==
    {Scaled(RawConfiguration(x[1], x[2], x[3], 0, x[4], UnitScalings)) :
        x \in {<<2, 4, 0, Energy(TRUE, TRUE, FALSE, FALSE, FALSE, FALSE)>>,
               <<2, 4, 0, Energy(TRUE, TRUE, FALSE, FALSE, TRUE, FALSE)>>,
               <<2, 1, 2, Energy(TRUE, TRUE, FALSE, FALSE, TRUE, FALSE)>>,
               <<2, 1, 2, Energy(FALSE, FALSE, FALSE, FALSE, FALSE, FALSE)>>,
               <<3, 5, 2, Energy(TRUE, TRUE, FALSE, FALSE, TRUE, FALSE)>>,
               <<3, 5, 2, Energy(FALSE, FALSE, FALSE, FALSE, FALSE, FALSE)>>,
               <<1, 4, 2, Energy(TRUE, FALSE, FALSE, FALSE, FALSE, TRUE)>>,
               <<1, 4, 2, Energy(FALSE, TRUE, TRUE, FALSE, TRUE, FALSE)>>}}

\* the profiles of the arrays of more than one column
BatchProfiles ==
    {StepProfile(v, 1) : v \in {ColdValue, 16, 31, 100}} \cup {StepProfile(31, NumStaggered)}

CallBatches ==
    Columns \cup
    UNION {{FromColumns(cols) : cols \in [1..n -> BatchProfiles]} : n \in 2..MaxCols}

\* the profiles of the calls of the life-cycle specification
LifeColumns ==
    {FromColumns(<<StepProfile(v, 1)>>) : v \in {ColdValue, 31, 100}}

(***************************************************************************)
(* The calls.  last records the call: its arguments, the error it raised   *)
(* ("none" when it returned), what dTdt computed, what the integrator      *)
(* reported to solve, and in prior the error of the call before it.        *)
(***************************************************************************)
NoCall ==
    [op |-> "none", err |-> "none", time |-> 0, temperature |-> Unset,
     heat_flux |-> Unset, energy_flux |-> Unset, value |-> Unset,
     reported |-> NoOutcome, integrations |-> 0, prior |-> "none",
     read |-> NoSolution, kelvin |-> <<>>]

\* SpiderSolver(filename): parses the configuration file and builds the
\* Configuration, which scales its sections
Construct ==
    /\ stage = "start"
    /\ \E built \in {Configuration_post_init(cfg)} :
           /\ cfg' = built.cfg
           /\ stage' = IF built.err = "none" THEN "constructed" ELSE "failed"
           /\ last' = [NoCall EXCEPT !.op = "construct", !.err = built.err]
    /\ UNCHANGED <<applies, state, solution>>

\* SpiderSolver.initialize
Initialize ==
    /\ stage \in {"constructed", "initialized"}
    /\ stage' = "initialized"
    /\ state' = StateInit
    /\ last' = [NoCall EXCEPT !.op = "initialize"]
    /\ UNCHANGED <<cfg, applies, solution>>

\* solver.state.update(temperature, time)
StateUpdate(temperature, time) ==
    /\ stage \in {"constructed", "initialized"}
    /\ IF stage = "constructed"
       THEN /\ last' = [NoCall EXCEPT !.op = "update", !.err = "AttributeError",
                                      !.time = time, !.temperature = temperature,
                                      !.prior = last.err]
            /\ state' = state
       ELSE \E u \in {update(state, cfg, temperature, time)} :
                /\ state' = u.state
                /\ last' = [NoCall EXCEPT !.op = "update", !.err = u.err,
                                          !.time = time, !.temperature = temperature,
                                          !.prior = last.err]
    /\ UNCHANGED <<stage, cfg, applies, solution>>

\* solver.dTdt(time, temperature)
DTdt(temperature, time) ==
    /\ stage \in {"constructed", "initialized"}
    /\ IF stage = "constructed"
       THEN /\ last' = [NoCall EXCEPT !.op = "dTdt", !.err = "AttributeError",
                                      !.time = time, !.temperature = temperature,
                                      !.prior = last.err]
            /\ state' = state
       ELSE \E d \in {dTdt(state, cfg, applies, time, temperature)} :
                /\ state' = d.state
                /\ last' = [NoCall EXCEPT !.op = "dTdt", !.err = d.err,
                                          !.time = time, !.temperature = temperature,
                                          !.heat_flux = d.heat_flux,
                                          !.energy_flux = d.energy_flux,
                                          !.value = d.value, !.prior = last.err]
    /\ UNCHANGED <<stage, cfg, applies, solution>>

\* solver.solve(), the integrator reporting outcome
Solve(outcome) ==
    /\ stage \in {"constructed", "initialized"}
    /\ IF stage = "constructed"
       THEN /\ last' = [NoCall EXCEPT !.op = "solve", !.err = "AttributeError",
                                      !.prior = last.err]
            /\ UNCHANGED <<state, solution>>
       ELSE \E r \in {solve(state, solution, cfg, applies, outcome)} :
                /\ state' = r.state
                /\ solution' = r.solution
                /\ last' = [NoCall EXCEPT !.op = "solve", !.err = r.err,
                                          !.reported = outcome,
                                          !.integrations = r.integrations,
                                          !.prior = last.err]
    /\ UNCHANGED <<stage, cfg, applies>>

\* solver.solution
ReadSolution ==
    /\ stage \in {"constructed", "initialized"}
    /\ \E got \in {solution_getter(solution)} :
           last' = [NoCall EXCEPT !.op = "solution", !.err = got.err,
                                  !.read = got.value, !.prior = last.err]
    /\ UNCHANGED <<stage, cfg, applies, state, solution>>

\* solver.get_temperature()
GetTemperature ==
    /\ stage \in {"constructed", "initialized"}
    /\ \E got \in {get_temperature(solution, cfg)} :
           last' = [NoCall EXCEPT !.op = "get_temperature", !.err = got.err,
                                  !.kelvin = got.value, !.prior = last.err]
    /\ UNCHANGED <<stage, cfg, applies, state, solution>>

(***************************************************************************)
(* The life of a solver: construction from a configuration file, then      *)
(* initialize, dTdt, solve and the reads of the solution in any order.     *)
(***************************************************************************)
Init ==
    /\ stage = "start"
    /\ cfg \in LifeConfigurations
    /\ applies = "item"
    /\ state = StateInit
    /\ last = NoCall
    /\ solution = NoSolution

CallDTdt == \E temperature \in LifeColumns, time \in Times : DTdt(temperature, time)

CallSolve == \E outcome \in Outcomes : Solve(outcome)

Next ==
    Construct \/ Initialize \/ CallDTdt \/ CallSolve \/ ReadSolution \/ GetTemperature

Spec == Init /\ [][Next]_vars

(***************************************************************************)
(* One State.update on the State of a solver that was just initialized,    *)
(* for every setting of the energy flags.                                  *)
(***************************************************************************)
InitUpdate ==
    /\ stage = "initialized"
    /\ cfg \in UpdateConfigurations
    /\ applies = "item"
    /\ state = StateInit
    /\ last = [NoCall EXCEPT !.op = "initialize"]
    /\ solution = NoSolution

FirstUpdate ==
    /\ last.op = "initialize"
    /\ \E temperature \in Columns, time \in Times : StateUpdate(temperature, time)

NextUpdate == FirstUpdate

SpecUpdate == InitUpdate /\ [][NextUpdate]_vars

(***************************************************************************)
(* One dTdt on a solver that was just initialized, on temperature arrays   *)
(* of one and of several columns.                                          *)
(***************************************************************************)
InitBatch ==
    /\ stage = "initialized"
    /\ cfg \in BatchConfigurations
    /\ applies \in ApplyImplementations
    /\ state = StateInit
    /\ last = [NoCall EXCEPT !.op = "initialize"]
    /\ solution = NoSolution

FirstDTdt ==
    /\ last.op = "initialize"
    /\ \E temperature \in CallBatches, time \in Times : DTdt(temperature, time)

NextBatch == FirstDTdt

SpecBatch == InitBatch /\ [][NextBatch]_vars

(***************************************************************************)
(* Any sequence of State.update calls on the State of a solver.            *)
(***************************************************************************)
InitHistory ==
    /\ stage = "initialized"
    /\ cfg \in HistoryConfigurations
    /\ applies = "item"
    /\ state = StateInit
    /\ last = [NoCall EXCEPT !.op = "initialize"]
    /\ solution = NoSolution

CallUpdate == \E temperature \in Columns, time \in Times : StateUpdate(temperature, time)

NextHistory == CallUpdate

SpecHistory == InitHistory /\ [][NextHistory]_vars

(***************************************************************************)
(* The scaling of a configuration file: one construction.                  *)
(***************************************************************************)
InitScale ==
    /\ stage = "start"
    /\ cfg \in ScaleConfigurations
    /\ applies = "item"
    /\ state = StateInit
    /\ last = NoCall
    /\ solution = NoSolution

NextScale == Construct

SpecScale == InitScale /\ [][NextScale]_vars

(***************************************************************************)
(* The claims.                                                             *)
(***************************************************************************)
Returned(op) == last.op = op /\ last.err = "none"

\* the columns of the temperature array of the last call
LastColumns == 1..last.temperature.c

\* C1: when dTdt returns, the energy flux it differenced has, at the
\* innermost and at the outermost basic node and in every column, the heat
\* flux that state.heat_flux holds after BoundaryConditions.apply, times the
\* area of the node, however apply writes the heat flux.
C1_DifferencedFluxIsFluxAfterApply ==
    Returned("dTdt") =>
        \A i \in {1, NumBasic} : \A k \in LastColumns :
            At(last.energy_flux, i, k) = Mul(At(state.heat_flux, i, k), At(area, i, 1))

\* C2: after an update that completes, a basic node is in the viscous
\* regime exactly when its Reynolds number n/d has 8n <= 9d, in the inviscid
\* regime exactly when 8n > 9d, and so in exactly one of the two.
C2_RegimeClassification ==
    Returned("update") =>
        \A i \in 1..NumBasic : \A k \in LastColumns :
            LET re == state.reynolds_number.a[i][k]
                viscous == viscous_regime(state).a[i][k]
                inviscid == inviscid_regime(state).a[i][k]
            IN  /\ viscous = (8 * re[1] <= 9 * re[2])
                /\ inviscid = (8 * re[1] > 9 * re[2])
                /\ viscous # inviscid

\* an update completed with a Reynolds number of exactly 9/8 at a node
C2_AtCriticalReynolds ==
    /\ Returned("update")
    /\ \E i \in 1..NumBasic :
           /\ state.reynolds_number.a[i][1] = <<9, 8>>
           /\ viscous_regime(state).a[i][1]
           /\ ~inviscid_regime(state).a[i][1]

\* C3: after an update that completes, a basic node whose super-adiabatic
\* gradient is zero or positive is not convective, and at every node that
\* is not convective the viscous velocity, the inviscid velocity and the
\* eddy diffusivity are exactly zero.
C3_NoVelocityWithoutConvection ==
    Returned("update") =>
        \A i \in 1..NumBasic : \A k \in LastColumns :
            LET gradient == state.super_adiabatic_temperature_gradient.a[i][k]
            IN  /\ state.is_convective.a[i][k] = (gradient[1] < 0)
                /\ ~state.is_convective.a[i][k] =>
                       /\ state.viscous_velocity.a[i][k] = Zero
                       /\ state.inviscid_velocity.a[i][k] = Zero
                       /\ state.eddy_diffusivity.a[i][k] = Zero

\* an update completed with a gradient of exactly zero at one node of
\* positive mixing length, and a positive gradient at another node
C3_AtAdiabat ==
    /\ Returned("update")
    /\ \E i, j \in 1..NumBasic :
           /\ state.super_adiabatic_temperature_gradient.a[i][1] = Zero
           /\ mixing_length.a[i][1] # Zero
           /\ ~state.is_convective.a[i][1]
           /\ state.super_adiabatic_temperature_gradient.a[j][1][1] > 0

\* the product capacitance * volume of staggered cell i in column k, from
\* the properties of the phase and the radii of the mesh
CellCapacitance(i, k) ==
    Mul(Mul(At(density(state.phase_staggered), i, k),
            At(heat_capacity(state.phase_staggered), i, k)),
        Q(radius(i + 1) * radius(i + 1) * radius(i + 1)
            - radius(i) * radius(i) * radius(i), 3))

\* C4: when dTdt returns, its value has one row per staggered node and one
\* column per column of the temperature, and row i is
\* -(heat_flux[i+1]*area[i+1] - heat_flux[i]*area[i])
\*    / (capacitance_staggered[i]*volume[i]) + heating[i],
\* heat_flux being the heat flux dTdt differenced.
C4_EnergyBalancePerNode ==
    Returned("dTdt") =>
        /\ last.value.r = NumStaggered
        /\ last.value.c = last.temperature.c
        /\ \A i \in 1..NumStaggered : \A k \in LastColumns :
               last.value.a[i][k] =
                   Add(Div(Neg(Sub(Mul(At(last.heat_flux, i + 1, k), R(radius(i + 1) * radius(i + 1))),
                                   Mul(At(last.heat_flux, i, k), R(radius(i) * radius(i))))),
                           CellCapacitance(i, k)),
                       At(state.heating, i, k))

\* dTdt returned for a convecting column with heating and a heat flux that
\* differs between the two boundaries
C4_FluxAndHeating ==
    /\ Returned("dTdt")
    /\ \E k \in LastColumns :
           /\ At(last.heat_flux, 1, k) # At(last.heat_flux, NumBasic, k)
           /\ At(state.heating, 1, k) # Zero
           /\ \E i \in 1..NumBasic : state.is_convective.a[i][k]

\* the rate of change of the energy stored in column k, the sum over the
\* staggered nodes of capacitance * volume * x
StoredEnergyRate(x, k) ==
    LET sum[i \in 0..NumStaggered] ==
            IF i = 0 THEN Zero
            ELSE Add(sum[i - 1], Mul(CellCapacitance(i, k), At(x, i, k)))
    IN  sum[NumStaggered]

\* C5: when dTdt returns, in every column the sum over the staggered nodes
\* of capacitance * volume * dTdt is minus the difference between the last
\* and the first entry of the energy flux, plus the same sum of the
\* heating; with a zero heat flux at both boundaries and the radionuclides
\* disabled it is zero.
C5_EnergyConservation ==
    Returned("dTdt") =>
        \A k \in LastColumns :
            /\ StoredEnergyRate(last.value, k) =
                   Add(Neg(Sub(At(last.energy_flux, NumBasic, k),
                               At(last.energy_flux, 1, k))),
                       StoredEnergyRate(state.heating, k))
            /\ (/\ At(last.heat_flux, 1, k) = Zero
                /\ At(last.heat_flux, NumBasic, k) = Zero
                /\ ~cfg.energy.radionuclides)
                   => StoredEnergyRate(last.value, k) = Zero

\* dTdt returned, with insulated boundaries and no heating, a rate of
\* change that is not zero at every node
C5_InsulatedColumn ==
    /\ Returned("dTdt")
    /\ ~cfg.energy.radionuclides
    /\ \E k \in LastColumns :
           /\ At(last.heat_flux, 1, k) = Zero
           /\ At(last.heat_flux, NumBasic, k) = Zero
           /\ \E i \in 1..NumStaggered : last.value.a[i][k] # Zero

\* the unimplemented terms of the heat flux are enabled
UnimplementedEnabled == cfg.energy.gravitational_separation \/ cfg.energy.mixing

\* every temperature of the last call lies in the table of the phase
LastInTable ==
    \A i \in 1..last.temperature.r : \A k \in LastColumns :
        /\ Le(PhaseParameters.table_min, last.temperature.a[i][k])
        /\ Le(last.temperature.a[i][k], PhaseParameters.table_max)

\* C6 as stated: with gravitational separation or mixing enabled, the first
\* State.update fails with NotImplementedError for every temperature and
\* time.
C6_AlwaysNotImplemented ==
    (last.op = "update" /\ UnimplementedEnabled) => last.err = "NotImplementedError"

\* C6 as amended: with gravitational separation or mixing enabled, the
\* first State.update never completes, whatever the other flags, the
\* temperature and the time; it fails with NotImplementedError when the
\* temperature lies in the table of the phase, and with the DomainError of
\* the phase update, raised first, when it does not.
C6_NeverCompletes ==
    (last.op = "update" /\ UnimplementedEnabled) =>
        /\ last.err # "none"
        /\ LastInTable => last.err = "NotImplementedError"
        /\ ~LastInTable => last.err = "DomainError"

\* the first update raised NotImplementedError with mixing enabled alone,
\* after the conduction and the convection were added to the heat flux
C6_MixingRaised ==
    /\ last.op = "update"
    /\ last.err = "NotImplementedError"
    /\ cfg.energy.mixing /\ ~cfg.energy.gravitational_separation
    /\ cfg.energy.conduction /\ cfg.energy.convection
    /\ IsSet(state.heat_flux)

\* the codes of the boundary conditions that the configuration knows
UnknownCode ==
    \/ cfg.boundary_conditions.inner_boundary_condition \notin {1, 2, 3}
    \/ cfg.boundary_conditions.outer_boundary_condition \notin {1, 2, 3, 4, 5}

C8_NoHistory ==
    Returned("update") =>
        state = update(StateInit, cfg, last.temperature, last.time).state

\* an update completed right after one that raised DomainError, with a
\* convecting node and heating
C8_AfterDomainError ==
    /\ Returned("update")
    /\ last.prior = "DomainError"
    /\ \E i \in 1..NumBasic : state.is_convective.a[i][1]
    /\ At(state.heating, 1, 1) # Zero

\* C9: when dTdt returns for an array of K columns, column k of its value
\* is the value of dTdt for column k alone, at the same time and from the
\* same configuration.
C9_ColumnsIndependent ==
    Returned("dTdt") =>
        \A k \in LastColumns :
            LET alone == dTdt(StateInit, cfg, applies, last.time, Col(last.temperature, k))
            IN  /\ alone.err = "none"
                /\ \A i \in 1..NumStaggered :
                       last.value.a[i][k] = alone.value.a[i][1]

\* dTdt returned for columns that differ in their top temperature and in
\* their rate of change, under a grey-body outer boundary
C9_DifferentColumns ==
    /\ Returned("dTdt")
    /\ last.temperature.c >= 2
    /\ cfg.boundary_conditions.outer_boundary_condition = 1
    /\ top_temperature(state).a[1][1] # top_temperature(state).a[1][2]
    /\ \E i \in 1..NumStaggered : last.value.a[i][1] # last.value.a[i][2]

\* C10: when solve returns and the integrator reported failure, the
\* solution says so (success is false, status is the integrator's), it
\* holds the trajectory up to the failure, and the integration ran once;
\* the solution of a solve that returned says success exactly when the
\* integrator reported it.
C10_FailureSurfaced ==
    Returned("solve") =>
        /\ solution.success = (last.reported.status = 0)
        /\ last.integrations = 1
        /\ last.reported.status # 0 =>
               /\ solution.status = last.reported.status
               /\ solution.y = <<InitialProfile>> \o last.reported.steps
               /\ Len(solution.t) = Len(solution.y)

\* solve returned after the integrator failed past the initial condition
C10_FailedAfterSteps ==
    /\ Returned("solve")
    /\ last.reported.status = -1
    /\ ~solution.success
    /\ Len(solution.y) > 1

\* the last update went past the eddy diffusivity: it completed, or it
\* raised at an unimplemented term of the heat flux
ReachedHeatFlux ==
    last.op = "update" /\ last.err \in {"none", "NotImplementedError"}

\* the mixing length of basic node i, from the radii of the mesh
NodeMixingLength(i) ==
    R(MeshParameters.mixing_length_scale
        * (IF radius(i) - radius(1) <= radius(NumBasic) - radius(i)
           THEN radius(i) - radius(1) ELSE radius(NumBasic) - radius(i)))

\* C11: after an update that went past the eddy diffusivity, at every basic
\* node the Reynolds number is the (masked) viscous velocity times the
\* mixing length over the kinematic viscosity, and the eddy diffusivity is
\* the viscous velocity times the mixing length where that Reynolds number
\* is at most 9/8 and the inviscid velocity times the mixing length where
\* it is larger.
C11_EddyDiffusivitySelection ==
    ReachedHeatFlux =>
        \A i \in 1..NumBasic : \A k \in LastColumns :
            LET re == Div(Mul(state.viscous_velocity.a[i][k], NodeMixingLength(i)),
                          Div(PhaseParameters.viscosity, PhaseParameters.density))
            IN  /\ state.reynolds_number.a[i][k] = re
                /\ state.eddy_diffusivity.a[i][k] =
                       IF 8 * re[1] <= 9 * re[2]
                       THEN Mul(state.viscous_velocity.a[i][k], NodeMixingLength(i))
                       ELSE Mul(state.inviscid_velocity.a[i][k], NodeMixingLength(i))

\* an update completed with a node in the inviscid regime, where the two
\* velocities differ and the eddy diffusivity is the inviscid one
C11_InviscidNode ==
    /\ Returned("update")
    /\ \E i \in 1..NumBasic :
           /\ Lt(critical_reynolds_number, state.reynolds_number.a[i][1])
           /\ state.viscous_velocity.a[i][1] # state.inviscid_velocity.a[i][1]
           /\ state.eddy_diffusivity.a[i][1] =
                  Mul(state.inviscid_velocity.a[i][1], NodeMixingLength(i))

\* the conductive and the convective flux at basic node i in column k, from
\* the properties of the phase and the fields of the State
NodeConduction(i, k) ==
    Neg(Mul(PhaseParameters.thermal_conductivity, state.dTdr.a[i][k]))

NodeConvection(i, k) ==
    Neg(Mul(Mul(Mul(PhaseParameters.density, PhaseParameters.heat_capacity),
                state.eddy_diffusivity.a[i][k]),
            state.super_adiabatic_temperature_gradient.a[i][k]))

\* C12: after an update that completes, the heat flux at every basic node
\* is the conductive flux if conduction is enabled plus the convective flux
\* if convection is enabled; a disabled term adds nothing and with both
\* disabled the heat flux is zero.
C12_HeatFluxIsSumOfEnabledTerms ==
    Returned("update") =>
        \A i \in 1..NumBasic : \A k \in LastColumns :
            At(state.heat_flux, i, k) =
                Add(IF cfg.energy.conduction THEN NodeConduction(i, k) ELSE Zero,
                    IF cfg.energy.convection THEN NodeConvection(i, k) ELSE Zero)

\* an update completed with conduction enabled and convection disabled at
\* a node where the convective flux would not have been zero
C12_ConductionOnly ==
    /\ Returned("update")
    /\ cfg.energy.conduction /\ ~cfg.energy.convection
    /\ \E i \in 1..NumBasic :
           /\ NodeConvection(i, 1) # Zero
           /\ NodeConduction(i, 1) # Zero
           /\ At(state.heat_flux, i, 1) = NodeConduction(i, 1)

\* the heating of the registered radionuclides at the time of the last
\* call: the sum of power / 2^time
RegisteredHeating ==
    LET sum[n \in 0..Len(cfg.radionuclides)] ==
            IF n = 0 THEN Zero
            ELSE Add(sum[n - 1],
                     Div(cfg.radionuclides[n].power, R(2 ^ last.time)))
    IN  sum[Len(cfg.radionuclides)]

\* C13: after an update that completes, the heating at every staggered
\* node is, with energy.radionuclides enabled, the summed heating of the
\* registered radionuclides at that time times density / capacitance of
\* the node (zero when none is registered), and zero with the flag disabled
\* however many are registered.
C13_RadiogenicHeating ==
    Returned("update") =>
        \A i \in 1..NumStaggered : \A k \in LastColumns :
            At(state.heating, i, k) =
                IF cfg.energy.radionuclides
                THEN Mul(RegisteredHeating,
                         Div(PhaseParameters.density,
                             Mul(PhaseParameters.density, PhaseParameters.heat_capacity)))
                ELSE Zero

\* an update completed after a half-life with both radionuclides
\* registered and enabled, and a heating that is not zero
C13_TwoRadionuclidesDecayed ==
    /\ Returned("update")
    /\ cfg.energy.radionuclides
    /\ Len(cfg.radionuclides) = 2
    /\ last.time = 1
    /\ At(state.heating, 1, 1) = R(3)

\* C14: a construction that succeeds leaves in the boundary conditions, for
\* inner code 1 an inner value of 0, for inner code 2 the configured inner
\* value divided by the heat-flux scaling, for inner code 3 divided by the
\* temperature scaling; for outer codes 1, 2 and 3 the configured outer
\* value, for outer code 4 that value divided by the heat-flux scaling, for
\* outer code 5 divided by the temperature scaling; the codes and the
\* emissivity are the configured ones
C14_BoundaryValueScaledByCode ==
    [][(stage = "start" /\ stage' = "constructed") =>
          LET raw == cfg.boundary_conditions
              bc == cfg'.boundary_conditions
              scalings == cfg'.scalings
          IN  /\ raw.inner_boundary_condition = 1 => bc.inner_boundary_value = Zero
              /\ raw.inner_boundary_condition = 2 =>
                     bc.inner_boundary_value =
                         Div(raw.inner_boundary_value, scalings.heat_flux)
              /\ raw.inner_boundary_condition = 3 =>
                     bc.inner_boundary_value =
                         Div(raw.inner_boundary_value, scalings.temperature)
              /\ raw.outer_boundary_condition \in {1, 2, 3} =>
                     bc.outer_boundary_value = raw.outer_boundary_value
              /\ raw.outer_boundary_condition = 4 =>
                     bc.outer_boundary_value =
                         Div(raw.outer_boundary_value, scalings.heat_flux)
              /\ raw.outer_boundary_condition = 5 =>
                     bc.outer_boundary_value =
                         Div(raw.outer_boundary_value, scalings.temperature)
              /\ bc.inner_boundary_condition = raw.inner_boundary_condition
              /\ bc.outer_boundary_condition = raw.outer_boundary_condition
              /\ bc.emissivity = raw.emissivity]_vars

\* a constructed configuration of code 1 inside and code 5 outside, whose
\* outer value 12 was divided by a temperature scaling of 2 that is not the
\* heat-flux scaling
C14_CoreCoolingScaled ==
    /\ stage = "constructed"
    /\ cfg.boundary_conditions.inner_boundary_condition = 1
    /\ cfg.boundary_conditions.inner_boundary_value = Zero
    /\ cfg.boundary_conditions.outer_boundary_condition = 5
    /\ cfg.boundary_conditions.outer_boundary_value = R(6)
    /\ cfg.scalings.temperature = R(2)
    /\ cfg.scalings.heat_flux = R(3)

\* the properties of the phase are positive and the mixing length is not
\* negative at any basic node
PositiveProperties ==
    /\ Lt(Zero, PhaseParameters.gravitational_acceleration)
    /\ Lt(Zero, PhaseParameters.thermal_expansivity)
    /\ Lt(Zero, PhaseParameters.density)
    /\ Lt(Zero, PhaseParameters.heat_capacity)
    /\ Lt(Zero, Div(PhaseParameters.viscosity, PhaseParameters.density))
    /\ \A i \in 1..NumBasic : Le(Zero, NodeMixingLength(i))

\* C15: with positive properties of the phase and a mixing length that is
\* not negative, after an update that went past the eddy diffusivity the
\* velocity prefactor is not negative at any convective node; the viscous
\* velocity, the inviscid velocity, the Reynolds number and the eddy
\* diffusivity are not negative at any basic node; the convective heat flux
\* is not negative at any basic node and is zero at every node that is not
\* convective.
C15_NothingNegative ==
    (PositiveProperties /\ ReachedHeatFlux) =>
        \A i \in 1..NumBasic : \A k \in LastColumns :
            /\ state.is_convective.a[i][k] =>
                   Le(Zero, At(velocity_prefactor(state), i, k))
            /\ Le(Zero, state.viscous_velocity.a[i][k])
            /\ Le(Zero, state.inviscid_velocity.a[i][k])
            /\ Le(Zero, state.reynolds_number.a[i][k])
            /\ Le(Zero, state.eddy_diffusivity.a[i][k])
            /\ Le(Zero, At(convective_heat_flux(state), i, k))
            /\ ~state.is_convective.a[i][k] =>
                   At(convective_heat_flux(state), i, k) = Zero

\* an update completed with a convective node of positive prefactor, eddy
\* diffusivity and convective heat flux, and a node of positive
\* super-adiabatic gradient that carries no convective heat flux
C15_ConvectiveAndStable ==
    /\ Returned("update")
    /\ \E i, j \in 1..NumBasic :
           /\ state.is_convective.a[i][1]
           /\ Lt(Zero, At(velocity_prefactor(state), i, 1))
           /\ Lt(Zero, state.inviscid_velocity.a[i][1])
           /\ Lt(Zero, state.eddy_diffusivity.a[i][1])
           /\ Lt(Zero, At(convective_heat_flux(state), i, 1))
           /\ ~state.is_convective.a[j][1]
           /\ Lt(Zero, state.super_adiabatic_temperature_gradient.a[j][1])
           /\ At(convective_heat_flux(state), j, 1) = Zero

\* the last update left the heat flux, the heating and the error of w
SameOutcome(w) ==
    /\ last.err = w.err
    /\ state.heat_flux = w.state.heat_flux
    /\ state.heating = w.state.heating

ReportedSolution(reported) ==
    [status |-> reported.status, success |-> reported.status = 0,
     t |-> [i \in 1..(1 + Len(reported.steps)) |-> i - 1],
     y |-> <<InitialProfile>> \o reported.steps]

\* a dTdt or a solve on a solver that was not initialized raised and left
\* the State and the solution alone
FailsBeforeInitialize ==
    (last.op \in {"dTdt", "solve"} /\ stage = "constructed") =>
        /\ last.err = "AttributeError"
        /\ state = StateInit
        /\ solution = NoSolution

\* a read of solution raised when there is no solution and returned the
\* stored solution otherwise; a read of get_temperature raised when there
\* is no solution and returned otherwise one column per column of
\* solution.y, each entry multiplied by the temperature scaling
ReadsTheSolution ==
    /\ last.op = "solution" =>
           IF solution = NoSolution THEN last.err = "AttributeError"
           ELSE last.err = "none" /\ last.read = solution
    /\ last.op = "get_temperature" =>
           IF solution = NoSolution THEN last.err = "AttributeError"
           ELSE /\ last.err = "none"
                /\ Len(last.kelvin) = Len(solution.y)
                /\ \A k \in 1..Len(solution.y) : \A i \in 1..NumStaggered :
                       last.kelvin[k][i] =
                           Mul(solution.y[k][i], cfg.scalings.temperature)

\* C17: a solver starts without a solution; dTdt and solve before
\* initialize fail with AttributeError without evaluating; a call sets the
\* solution only when it is a solve that returns, to what the integrator
\* reported, and every other call (a solve that raises included) leaves it
\* as it was, so that solution and get_temperature fail with AttributeError
\* until a solve has returned, and afterwards solution is the result of the
\* most recent solve that returned and get_temperature its columns times
\* the temperature scaling.
C17_CallOrder ==
    /\ solution = NoSolution
    /\ [](FailsBeforeInitialize /\ ReadsTheSolution)
    /\ [][solution' = IF last'.op = "solve" /\ last'.err = "none"
                      THEN ReportedSolution(last'.reported)
                      ELSE solution]_vars

\* get_temperature returned, after a solve that took a step, temperatures
\* that are twice those of the solution
C17_TemperatureInKelvin ==
    /\ last.op = "get_temperature"
    /\ last.err = "none"
    /\ cfg.scalings.temperature = R(2)
    /\ Len(last.kelvin) > 1
    /\ last.kelvin[1][1] = R(62)
    /\ solution.y[1][1] = R(31)

====
